---- MODULE Spec2Model ----
(***************************************************************************)
(* A model of DownloadFramework.getFramework                                *)
(* (packages/download-framework/lib/DownloadFramework.js): one invocation  *)
(* of the download-and-materialize pipeline, its external collaborators    *)
(* (version discovery, cache registry, HTTP transport, file system) and    *)
(* the concurrent per-file operations of its last stage.                   *)
(*                                                                         *)
(* Strings of the program are sequences of chunks; a chunk is a TLA+       *)
(* string standing for a run of characters that contains no separator.     *)
(* The empty JavaScript string is the empty sequence.                      *)
(***************************************************************************)
EXTENDS Naturals, Sequences, FiniteSets, TLC

VARIABLES
    opts,      \* options.dest and options.clear as the caller passed them
    initial,   \* the file system as it was when getFramework was invoked
    pc,        \* position of getFramework (which await it is suspended at)
    loc,       \* locals of getFramework that are still read: dest, rtv,
               \* ampUrlPrefix, url (frameworkBaseUrl), text, files
    ret,       \* the response object `ret`
    failStage, \* stage (1..5) in which the run failed, 0 while it has not
    destState, \* what the destination path is on disk
    disk,      \* entries below the destination: relative path -> entry
    effects,   \* kinds of external action performed so far
    clearing,  \* clearDirectory_: direct child -> state of its removal
    ops,       \* fetchAndSaveAsync_ invocations, one per manifest entry
    sockets,   \* operations holding a connection of the https.Agent
    all,       \* state of Promise.all(fetchAndSavePromises)
    firstRejected, \* the operation whose promise rejected first in time, or 0
    served,    \* the body the origin answers a file request with
    content    \* text of the files the run has opened: path -> what is in it

vars == <<opts, initial, pc, loc, ret, failStage, destState, disk, effects,
          clearing, ops, sockets, all, firstRejected, served, content>>

----------------------------------------------------------------------------
(* Bounds of the model *)

\* Largest number of lines in a manifest body.
MaxLines == 2

\* Largest number of entries of a stage-5 run started by InitPool.
MaxPoolFiles == 7

----------------------------------------------------------------------------
(* Program constants *)

FRAMEWORK_FILES_TXT == <<"files.txt">>

maxSockets == 6

OsType == "Linux"

HomeDir == "/home/user"

----------------------------------------------------------------------------
(* Strings *)

EndsWith(s, c) == Len(s) > 0 /\ s[Len(s)] = c

\* Characters encodeURIComponent leaves alone: A-Z a-z 0-9 - _ . ! ~ * ' ( )
Unreserved == {"1", "5", "2", "0", "."}

EscapeOf(c) ==
    CASE c = " " -> "%20"
      [] c = "/" -> "%2F"
      [] OTHER   -> "%3F"

RECURSIVE encodeURIComponent(_)
encodeURIComponent(s) ==
    IF s = <<>> THEN <<>>
    ELSE <<IF Head(s) \in Unreserved THEN Head(s) ELSE EscapeOf(Head(s))>>
         \o encodeURIComponent(Tail(s))

\* new URL(url) succeeds: the string starts with a scheme and names a host.
Schemes == {"https:", "http:"}

isAbsoluteUrl_(url) ==
    /\ Len(url) >= 2
    /\ url[1] \in Schemes
    /\ \E k \in 2..Len(url) : url[k] # "/"

\* Lines 135-136.
FrameworkBaseUrl(ampUrlPrefix, rtv) ==
    ampUrlPrefix \o (IF EndsWith(ampUrlPrefix, "/") THEN <<>> ELSE <<"/">>)
                 \o <<"rtv/">> \o rtv \o <<"/">>

\* Lines 84-89: a leading ~ segment becomes the home directory.
ExpandHome(dest) ==
    IF OsType # "Windows_NT" /\ dest # <<>> /\ dest[1] = "~"
    THEN <<HomeDir>> \o Tail(dest)
    ELSE dest

----------------------------------------------------------------------------
(* The geolocation helper's country hotpatch (lines 318-322) *)

\* File bodies are sequences of characters.
Letters == {"u", "s", "e", "U", "S"}

HotpatchLetters == 2

HotpatchSpaces == 26

Placeholder == <<"{{AMP_ISO_COUNTRY_HOTPATCH}}">>

\* The i flag is missing: only lowercase letters match.
MatchesAtHeadCaseSensitive(text) ==
    /\ Len(text) >= HotpatchLetters + HotpatchSpaces
    /\ \A k \in 1..HotpatchLetters : text[k] \in {"u", "s", "e"}
    /\ \A k \in (HotpatchLetters + 1)..(HotpatchLetters + HotpatchSpaces) :
          text[k] = " "

\* /[a-z]{2} {26}/i matches at the head of the text: two letters of either
\* case, then 26 spaces.
MatchesAtHead(text) ==
    /\ Len(text) >= HotpatchLetters + HotpatchSpaces
    /\ \A k \in 1..HotpatchLetters : text[k] \in Letters
    /\ \A k \in (HotpatchLetters + 1)..(HotpatchLetters + HotpatchSpaces) :
          text[k] = " "

\* text.replace(/[a-z]{2} {26}/i, '{{AMP_ISO_COUNTRY_HOTPATCH}}') (line 321):
\* the leftmost match is replaced, the text after it is not searched.
RECURSIVE UndoHotpatch(_)
UndoHotpatch(text) ==
    IF text = <<>> THEN <<>>
    ELSE IF MatchesAtHead(text)
    THEN Placeholder
         \o SubSeq(text, HotpatchLetters + HotpatchSpaces + 1, Len(text))
    ELSE <<Head(text)>> \o UndoHotpatch(Tail(text))

Spaces(n) == [k \in 1..n |-> " "]

----------------------------------------------------------------------------
(* The manifest *)

\* text.split(/\r?\n/): the lines of a text. A "\r" that is not followed by
\* "\n" stays in its line.
RECURSIVE SplitLines(_, _)
SplitLines(text, cur) ==
    IF text = <<>> THEN <<cur>>
    ELSE IF Head(text) = "\n" THEN <<cur>> \o SplitLines(Tail(text), <<>>)
    ELSE IF Head(text) = "\r" /\ Len(text) >= 2 /\ text[2] = "\n"
         THEN <<cur>> \o SplitLines(Tail(Tail(text)), <<>>)
    ELSE SplitLines(Tail(text), Append(cur, Head(text)))

\* .filter((filepath) => filepath): the empty string is the only falsy line.
KeepLine(filepath) == filepath # <<>>

\* Lines 152-160.
ParseFiles(text, frameworkBaseUrl) ==
    LET lines == SelectSeq(SplitLines(text, <<>>), KeepLine)
    IN  [k \in 1..Len(lines) |->
            [filepath |-> lines[k], url |-> frameworkBaseUrl \o lines[k]]]

\* The sanity check is left out.
ListsItselfUnchecked(files) == TRUE

\* Line 163.
ListsItself(files) ==
    \E k \in 1..Len(files) : files[k].filepath = FRAMEWORK_FILES_TXT

----------------------------------------------------------------------------
(* Inputs and collaborators' answers *)

Prefix == <<"https:", "/", "/", "example.com">>

DestChoices ==
    { [defined |-> FALSE, path |-> <<>>],
      [defined |-> TRUE,  path |-> <<>>],
      [defined |-> TRUE,  path |-> <<"~", "out">>] }

ClearChoices == {"true", "false", "undefined"}

RtvChoices == { <<>>, <<"1", "5">>, <<"1", " ", "5">> }

PrefixChoices ==
    { <<>>, Prefix, Prefix \o <<"/">>, Prefix \o <<"/", "/">>, <<"example.com">> }

\* What runtimeVersionProvider.currentVersion resolves with.
VersionAnswers == { <<>>, <<"1", "5">> }

\* What Caches.get('google') resolves with: nothing, or an object whose
\* cacheDomain is a host name, the empty string, or missing.
CacheAnswers == {"none", "host", "empty", "absent"}

\* 'https://' + googleAmpCache.cacheDomain (line 127); a missing property
\* concatenates as the text "undefined".
CachePrefix(answer) ==
    <<"https:", "/", "/">> \o
        (CASE answer = "host"  -> <<"example.com">>
           [] answer = "empty" -> <<>>
           [] OTHER            -> <<"undefined">>)

LineChoices ==
    { <<"files.txt">>, <<"a.js">>, <<"d", "/", "a.js">>, <<"amp-geo-0.1.js">>, <<>> }

Newlines == { <<"\n">>, <<"\r", "\n">> }

RECURSIVE JoinLines(_, _, _)
JoinLines(lines, nl, trailing) ==
    IF lines = <<>> THEN <<>>
    ELSE Head(lines)
         \o (IF Len(lines) > 1 \/ trailing THEN nl ELSE <<>>)
         \o JoinLines(Tail(lines), nl, trailing)

SeqsUpTo(S, n) == UNION { [1..k -> S] : k \in 0..n }

\* Bodies the manifest request can answer with.
ManifestTexts ==
    { JoinLines(ls, nl, t) :
        ls \in SeqsUpTo(LineChoices, MaxLines), nl \in Newlines, t \in BOOLEAN }

Dir == [kind |-> "dir", data |-> "-"]

File(data) == [kind |-> "file", data |-> data]

NoDisk == [p \in {} |-> Dir]

\* What the destination directory may hold before the run.
InitialDisks ==
    { NoDisk,
      [p \in { <<"old.txt">>, <<"olddir">>, <<"olddir", "x">> } |->
          IF p = <<"olddir">> THEN Dir ELSE File("old")],
      [p \in { <<"d">> } |-> File("old")] }

\* The body of a file request in runs of the whole pipeline: `=us`, 26
\* spaces, `;`.
Bodies == { <<"=", "u", "s">> \o Spaces(HotpatchSpaces) \o <<";">> }

\* Bodies of the geolocation helper and of other files: a head, up to three
\* characters where the country code goes, a run of spaces, a tail (which
\* may hold a second hotpatched country).
GeoBodies ==
    { head \o code \o Spaces(n) \o tail :
        head \in { <<>>, <<"=">>, <<"e">> },
        code \in { <<>>, <<"u">>, <<"u", "s">>, <<"U", "S">>, <<"u", "S">>, <<"1", "u">> },
        n \in { 0, HotpatchSpaces - 1, HotpatchSpaces, HotpatchSpaces + 1 },
        tail \in { <<>>, <<";">>, <<";", "s", "e">> \o Spaces(HotpatchSpaces) } }

\* Paths a manifest may list next to files.txt.
GeoPathChoices ==
    { <<"amp-geo-0.1.js">>, <<"amp-geo-latest.mjs">>, <<"amp-geo-0.1.js.map">>,
      <<"amp-geo.js">>, <<"a.js">> }

NoContent == [p \in {} |-> <<>>]

\* The file at `path` now holds `text`.
SetContent(c, path, text) ==
    [p \in DOMAIN c \cup {path} |-> IF p = path THEN text ELSE c[p]]

----------------------------------------------------------------------------
(* Initial state: getFramework(options) has just been called *)

NoOps == <<>>

Init ==
    /\ opts \in [dest : DestChoices, clear : ClearChoices]
    /\ \E ds \in {"absent", "file", "dir", "dir_ro"} :
       \E d0 \in InitialDisks :
          /\ (ds \notin {"dir", "dir_ro"} => d0 = NoDisk)
          /\ initial = [destState |-> ds, disk |-> d0]
          /\ destState = ds
          /\ disk = d0
    /\ pc = "Start"
    \* Line 70: let {ampUrlPrefix, dest, rtv} = options
    /\ \E rtv \in RtvChoices : \E ampUrlPrefix \in PrefixChoices :
          loc = [dest |-> <<>>, rtv |-> rtv, ampUrlPrefix |-> ampUrlPrefix,
                 url |-> <<>>, text |-> <<>>, files |-> <<>>]
    \* Lines 73-80.
    /\ ret = [status |-> FALSE, error |-> <<>>, count |-> 0, url |-> <<>>,
              dest |-> opts.dest.path, rtv |-> <<>>]
    /\ failStage = 0
    /\ effects = {}
    /\ clearing = NoDisk
    /\ ops = NoOps
    /\ sockets = {}
    /\ all = [state |-> "idle", reason |-> <<>>]
    /\ firstRejected = 0
    /\ served \in Bodies
    /\ content = NoContent

----------------------------------------------------------------------------
(* Leaving getFramework *)

\* The error is recorded but `return ret` is missing: the run goes on.
ReturnErrorFallsThrough(stage, message) ==
    /\ ret' = [ret EXCEPT !.error = message]
    /\ pc' = (IF stage = 1 THEN "ResolvingVersion"
              ELSE IF stage = 2 THEN "FetchingManifest" ELSE "PlanningDirectories")
    /\ failStage' = stage

\* `return ret` without recording the message in ret.error.
ReturnErrorSilent(stage, message) ==
    /\ ret' = ret
    /\ pc' = "Failed"
    /\ failStage' = stage

\* ret.error = message; log.error(ret.error); return ret;
ReturnError(stage, message) ==
    /\ ret' = [ret EXCEPT !.error = message]
    /\ pc' = "Failed"
    /\ failStage' = stage

\* An exception no try block of getFramework catches: the promise that
\* getFramework returned rejects and no result object is produced.
Throw(stage) ==
    /\ pc' = "Thrown"
    /\ failStage' = stage
    /\ ret' = ret

----------------------------------------------------------------------------
(* Stage 1: the destination (lines 68-98, 213-223) *)

\* What fs.mkdirSync(dirpath, {recursive: true}) can do to a path that is
\* not a directory: nothing exists there and it makes a directory (that the
\* process may or may not be allowed to use), or it throws.
MkdirOutcomes(state) ==
    IF state = "absent" THEN {"dir", "dir_ro", "throw"} ELSE {"throw"}

\* The access check is left out.
AccessibleUnchecked(state) == TRUE

\* fs.accessSync(dirpath, R_OK | W_OK) returns without throwing.
Accessible(state) == state = "dir"

\* Lines 68-89: the response object is prepared and ~ is expanded.
Start ==
    /\ pc = "Start"
    /\ UNCHANGED <<opts, initial, served, content, destState, disk, effects, clearing, ops, sockets,
                   all, firstRejected>>
    /\ IF ~opts.dest.defined
       THEN \* line 85: undefined.split(...) is a TypeError outside any try
            /\ Throw(1)
            /\ UNCHANGED loc
       ELSE /\ loc' = [loc EXCEPT !.dest = ExpandHome(opts.dest.path)]
            /\ ret' = [ret EXCEPT !.dest = ExpandHome(opts.dest.path)]
            /\ pc' = "Validating"
            /\ UNCHANGED failStage

\* Lines 91-98 with assertDirectoryWritable_ (lines 213-223).
Validate ==
    /\ pc = "Validating"
    /\ UNCHANGED <<opts, initial, served, content, loc, disk, clearing, ops, sockets, all,
                   firstRejected>>
    /\ IF loc.dest = <<>>
       THEN \* line 215
            /\ ReturnError(1, <<"Directory not specified">>)
            /\ UNCHANGED <<destState, effects>>
       ELSE \E made \in (IF destState \in {"dir", "dir_ro"}
                         THEN {destState} ELSE MkdirOutcomes(destState)) :
            /\ destState' = (IF made = "throw" THEN destState ELSE made)
            /\ effects' = (IF made # "throw" /\ destState = "absent"
                           THEN effects \cup {"mkdest"} ELSE effects)
            /\ IF made = "throw"
               THEN ReturnError(1, <<"mkdir failed: ">> \o loc.dest)
               ELSE IF ~Accessible(made)
               THEN \* line 222: fs.accessSync throws
                    ReturnError(1, <<"permission denied: ">> \o loc.dest)
               ELSE /\ pc' = "ResolvingVersion"
                    /\ UNCHANGED <<ret, failStage>>

----------------------------------------------------------------------------
(* Stage 2: version and origin (lines 100-140) *)

ResolveVersion ==
    /\ pc = "ResolvingVersion"
    /\ UNCHANGED <<opts, initial, served, content, destState, disk, clearing, ops, sockets, all,
                   firstRejected>>
    /\ IF loc.rtv = <<>>
       THEN \* line 103: ask the version-discovery collaborator
            /\ effects' = effects \cup {"version"}
            /\ pc' = "AwaitVersion"
            /\ UNCHANGED <<loc, ret, failStage>>
       ELSE IF loc.rtv # encodeURIComponent(loc.rtv)
       THEN /\ ReturnError(2, <<"Invalid runtime version specified: ">> \o loc.rtv)
            /\ UNCHANGED <<loc, effects>>
       ELSE /\ ret' = [ret EXCEPT !.rtv = loc.rtv]
            /\ pc' = "ResolvingOrigin"
            /\ UNCHANGED <<loc, effects, failStage>>

\* runtimeVersionProvider.currentVersion settles.
VersionSettles ==
    /\ pc = "AwaitVersion"
    /\ UNCHANGED <<opts, initial, served, content, destState, disk, effects, clearing, ops, sockets,
                   all, firstRejected>>
    /\ \/ \E v \in VersionAnswers :
            IF v = <<>>
            THEN /\ ReturnError(2, <<"Could not determine runtime version to download">>)
                 /\ UNCHANGED loc
            ELSE /\ loc' = [loc EXCEPT !.rtv = v]
                 /\ ret' = [ret EXCEPT !.rtv = v]
                 /\ pc' = "ResolvingOrigin"
                 /\ UNCHANGED failStage
       \/ \* the collaborator's promise rejects: line 103 is in no try block
          /\ Throw(2)
          /\ UNCHANGED loc

\* Lines 135-140, reached from line 127 or line 128. ampUrlPrefix is not
\* read after line 136 and is dropped from the locals.
BuildUrl(ampUrlPrefix) ==
    LET frameworkBaseUrl == FrameworkBaseUrl(ampUrlPrefix, loc.rtv) IN
    /\ loc' = [loc EXCEPT !.ampUrlPrefix = <<>>, !.url = frameworkBaseUrl]
    /\ ret' = [ret EXCEPT !.url = frameworkBaseUrl]
    /\ pc' = "FetchingManifest"
    /\ UNCHANGED failStage

ResolveOrigin ==
    /\ pc = "ResolvingOrigin"
    /\ UNCHANGED <<opts, initial, served, content, destState, disk, clearing, ops, sockets, all,
                   firstRejected>>
    /\ IF loc.ampUrlPrefix = <<>>
       THEN \* line 121: ask the cache registry
            /\ effects' = effects \cup {"cache"}
            /\ pc' = "AwaitCache"
            /\ UNCHANGED <<loc, ret, failStage>>
       ELSE IF ~isAbsoluteUrl_(loc.ampUrlPrefix)
       THEN /\ ReturnError(2, <<"ampUrlPrefix must be an absolute URL">>)
            /\ UNCHANGED <<loc, effects>>
       ELSE /\ BuildUrl(loc.ampUrlPrefix)
            /\ UNCHANGED effects

\* Caches.get('google') settles.
CacheSettles ==
    /\ pc = "AwaitCache"
    /\ UNCHANGED <<opts, initial, served, content, destState, disk, effects, clearing, ops, sockets,
                   all, firstRejected>>
    /\ \/ \E googleAmpCache \in CacheAnswers :
            IF googleAmpCache = "none"
            THEN /\ ReturnError(2, <<"Could not determine AMP cache domain">>)
                 /\ UNCHANGED loc
            ELSE BuildUrl(CachePrefix(googleAmpCache))
       \/ \* the registry's promise rejects: line 121 is in no try block
          /\ Throw(2)
          /\ UNCHANGED loc

----------------------------------------------------------------------------
(* Stage 3: the manifest (lines 142-173) *)

FetchManifest ==
    /\ pc = "FetchingManifest"
    /\ effects' = effects \cup {"manifest"}
    /\ pc' = "AwaitManifest"
    /\ UNCHANGED <<opts, initial, served, content, loc, ret, failStage, destState, disk, clearing,
                   ops, sockets, all, firstRejected>>

\* this.fetch_(filesTxtUrl) settles.
ManifestResponse ==
    /\ pc = "AwaitManifest"
    /\ UNCHANGED <<opts, initial, served, content, loc, destState, disk, effects, clearing, ops,
                   sockets, all, firstRejected>>
    /\ \E outcome \in {"ok", "notok", "reject"} :
         CASE outcome = "ok" ->
                /\ pc' = "AwaitManifestText"
                /\ UNCHANGED <<ret, failStage>>
           [] outcome = "notok" ->
                ReturnError(3, <<"Unable to fetch AMP framework files listing: ">>
                               \o loc.url \o FRAMEWORK_FILES_TXT)
           [] OTHER ->
                \* caught at line 166
                ReturnError(3, <<"Unable to read AMP framework files listing\n",
                                 "network error">>)

\* res.text() settles (line 151).
ManifestText ==
    /\ pc = "AwaitManifestText"
    /\ UNCHANGED <<opts, initial, served, content, destState, disk, effects, clearing, ops,
                   sockets, all, firstRejected>>
    /\ \/ \E text \in ManifestTexts :
            /\ loc' = [loc EXCEPT !.text = text]
            /\ pc' = "ParsingManifest"
            /\ UNCHANGED <<ret, failStage>>
       \/ \* the body fails; caught at line 166
          /\ ReturnError(3, <<"Unable to read AMP framework files listing\n",
                              "body error">>)
          /\ UNCHANGED loc

\* Lines 152-173: the listing is parsed and checked. The text is not read
\* again and is dropped from the locals.
ParseManifest ==
    /\ pc = "ParsingManifest"
    /\ UNCHANGED <<opts, initial, served, content, destState, disk, effects, clearing, ops,
                   sockets, all, firstRejected>>
    /\ LET files == ParseFiles(loc.text, loc.url) IN
       IF ~ListsItself(files)
       THEN \* thrown at line 164, caught at line 166
            /\ ReturnError(3, <<"Unable to read AMP framework files listing\n",
                                "Expected files.txt in file listing, but it was not found.">>)
            /\ UNCHANGED loc
       ELSE /\ loc' = [loc EXCEPT !.files = files, !.text = <<>>]
            /\ ret' = [ret EXCEPT !.count = Len(files)]
            /\ pc' = "PlanningDirectories"
            /\ UNCHANGED failStage

----------------------------------------------------------------------------
(* The file system below the destination *)

IsPrefix(a, b) == Len(a) <= Len(b) /\ SubSeq(b, 1, Len(a)) = a

\* readdir(dirpath): the direct children.
Children(d) == { p \in DOMAIN d : Len(p) = 1 }

\* unlink of a file, or rmdir(..., {recursive: true}) of a directory.
RemoveTree(d, item) == [p \in { q \in DOMAIN d : ~IsPrefix(item, q) } |-> d[p]]

NotSlash(c) == c # "/"

\* path.join(dest, relative), relative to dest: the segments between slashes.
Segments(filepath) == SelectSeq(filepath, NotSlash)

LastSlash(filepath) ==
    LET at == { k \in 1..Len(filepath) : filepath[k] = "/" }
    IN  IF at = {} THEN 0 ELSE CHOOSE k \in at : \A j \in at : j <= k

\* path.dirname(file.filepath)
Dirname(filepath) ==
    IF LastSlash(filepath) = 0 THEN <<".">>
    ELSE SubSeq(filepath, 1, LastSlash(filepath) - 1)

Prefixes(path) == { SubSeq(path, 1, j) : j \in 1..Len(path) }

\* fs.mkdirSync(path, {recursive: true}) works unless a file is in the way.
CanMkdir(d, path) ==
    \A q \in Prefixes(path) : q \in DOMAIN d => d[q].kind = "dir"

Mkdirp(d, path) ==
    [p \in DOMAIN d \cup Prefixes(path) |-> IF p \in DOMAIN d THEN d[p] ELSE Dir]

\* fs.createWriteStream(fullpath) can open its file: the parent is a
\* directory and no directory has the file's name.
CanOpen(d, path) ==
    /\ path # <<>>
    /\ LET parent == SubSeq(path, 1, Len(path) - 1)
       IN  parent = <<>> \/ (parent \in DOMAIN d /\ d[parent].kind = "dir")
    /\ path \in DOMAIN d => d[path].kind = "file"

WriteFile(d, path, data) ==
    [p \in DOMAIN d \cup {path} |-> IF p = path THEN File(data) ELSE d[p]]

----------------------------------------------------------------------------
(* Stage 4: clearing and subdirectories (lines 175-181, 230-241, 267-286) *)

\* clear === true: an omitted flag no longer clears.
ShouldClearOnlyTrue(clear) == clear = "true"

\* Line 176: clear !== false
ShouldClear(clear) == clear # "false"

PlanDirectories ==
    /\ pc = "PlanningDirectories"
    /\ UNCHANGED <<opts, initial, served, content, loc, ret, failStage, destState, disk, clearing,
                   ops, sockets, all, firstRejected>>
    /\ IF ShouldClear(opts.clear)
       THEN \* line 232: readdir is issued
            /\ effects' = effects \cup {"clear"}
            /\ pc' = "AwaitReaddir"
       ELSE /\ effects' = effects
            /\ pc' = "CreatingSubdirs"

\* readdir settles; every child's removal is issued (lines 233-239).
ReaddirSettles ==
    /\ pc = "AwaitReaddir"
    /\ UNCHANGED <<opts, initial, served, content, loc, destState, disk, effects, ops, sockets, all,
                   firstRejected>>
    /\ \/ /\ clearing' = [item \in Children(disk) |-> "pending"]
          /\ pc' = "Clearing"
          /\ UNCHANGED <<ret, failStage>>
       \/ \* readdir rejects: line 177 is in no try block
          /\ Throw(4)
          /\ UNCHANGED clearing

\* One rmdir or unlink settles. Promise.all(unlinkPromises) rejects with the
\* first failure; the other removals were issued and still run.
RemovalSettles(item) ==
    /\ pc \in {"Clearing", "Thrown"}
    /\ item \in DOMAIN clearing
    /\ clearing[item] = "pending"
    /\ UNCHANGED <<opts, initial, served, content, loc, destState, effects, ops, sockets, all,
                   firstRejected>>
    /\ \/ /\ disk' = RemoveTree(disk, item)
          /\ clearing' = [clearing EXCEPT ![item] = "done"]
          /\ UNCHANGED <<pc, ret, failStage>>
       \/ /\ clearing' = [clearing EXCEPT ![item] = "failed"]
          /\ disk' = disk
          /\ IF pc = "Clearing" THEN Throw(4) ELSE UNCHANGED <<pc, ret, failStage>>

\* clearDirectory_ is not awaited: the run goes on while removals are pending.
ClearingNotAwaited(c) == TRUE

\* Promise.all(unlinkPromises) fulfils: every removal is done.
ClearingSettled(c) == \A item \in DOMAIN c : c[item] = "done"

ClearingDone ==
    /\ pc = "Clearing"
    /\ ClearingSettled(clearing)
    /\ pc' = "CreatingSubdirs"
    /\ UNCHANGED <<opts, initial, served, content, loc, ret, failStage, destState, disk, effects,
                   clearing, ops, sockets, all, firstRejected>>

\* Lines 269-272.
UniqueDirs(files) ==
    LET dirs == [k \in 1..Len(files) |-> Dirname(files[k].filepath)]
        first(k) == \A j \in 1..(k - 1) : dirs[j] # dirs[k]
        keep == { k \in 1..Len(dirs) : dirs[k] # <<".">> /\ first(k) }
        RECURSIVE pick(_)
        pick(k) == IF k > Len(dirs) THEN <<>>
                   ELSE (IF k \in keep THEN <<dirs[k]>> ELSE <<>>) \o pick(k + 1)
    IN  pick(1)

\* Lines 274-285 from the k-th unique directory on; the failAt-th mkdirSync
\* throws for a reason of the file system's own.
RECURSIVE CreateDirs(_, _, _, _)
CreateDirs(dirs, k, d, failAt) ==
    IF k > Len(dirs) THEN [disk |-> d, threw |-> FALSE]
    ELSE LET fullpath == Segments(dirs[k]) IN
         IF fullpath \in DOMAIN d
         THEN CreateDirs(dirs, k + 1, d, failAt)
         ELSE IF k = failAt \/ ~CanMkdir(d, fullpath)
         THEN [disk |-> d, threw |-> TRUE]
         ELSE CreateDirs(dirs, k + 1, Mkdirp(d, fullpath), failAt)

CreateSubdirs ==
    /\ pc = "CreatingSubdirs"
    /\ UNCHANGED <<opts, initial, served, content, loc, destState, clearing, ops, sockets, all,
                   firstRejected>>
    /\ LET dirs == UniqueDirs(loc.files) IN
       \E failAt \in 0..Len(dirs) :
          LET r == CreateDirs(dirs, 1, disk, failAt) IN
          /\ disk' = r.disk
          /\ effects' = (IF r.disk # disk THEN effects \cup {"mksub"} ELSE effects)
          /\ IF r.threw
             THEN Throw(4)   \* line 181 is in no try block
             ELSE /\ pc' = "Dispatching"
                  /\ UNCHANGED <<ret, failStage>>

----------------------------------------------------------------------------
(* Stage 5: the file operations (lines 185-202, 297-332) *)

\* /amp-geo-([\d.]+|latest)\.m?js/.test(filepath): an unanchored search.
GeoChunks == {"amp-geo-0.1.js", "amp-geo-latest.mjs", "amp-geo-0.1.js.map"}

IsGeo(filepath) == \E k \in 1..Len(filepath) : filepath[k] \in GeoChunks

\* Lines 188-189: every entry's fetchAndSaveAsync_ runs up to its first
\* await, which issues the request; Promise.all starts waiting (line 192).
Dispatch ==
    /\ pc = "Dispatching"
    /\ ops' = [i \in 1..Len(loc.files) |->
                  [st |-> "queued", err |-> <<>>, opened |-> FALSE, text |-> <<>>]]
    /\ all' = [state |-> "pending", reason |-> <<>>]
    /\ effects' = effects \cup {"fetch"}
    /\ pc' = "MaterializingFiles"
    /\ UNCHANGED <<opts, initial, served, content, loc, ret, failStage, destState, disk, clearing,
                   sockets, firstRejected>>

\* The operations are abandoned once getFramework has returned.
OpsRunUntilReturn == pc = "MaterializingFiles"

\* The process is alive and the operations exist.
OpsRun == pc \in {"MaterializingFiles", "Succeeded", "Failed"}

\* fetchOptions is not passed to fetch: no agent limits the sockets.
SocketAlwaysFree(inUse) == TRUE

\* The https.Agent of fetchOptions (lines 34-40, passed at line 302) hands a
\* request a socket only while fewer than maxSockets are in use.
SocketFree(inUse) == Cardinality(inUse) < maxSockets

Acquire(i) ==
    /\ OpsRun
    /\ i \in DOMAIN ops
    /\ ops[i].st = "queued"
    /\ SocketFree(sockets)
    /\ sockets' = sockets \cup {i}
    /\ ops' = [ops EXCEPT ![i].st = "connected"]
    /\ UNCHANGED <<opts, initial, served, content, pc, loc, ret, failStage, destState, disk,
                   effects, clearing, all, firstRejected>>

\* Every rejection overwrites the reason: the last failure wins.
PromiseAllRejectLast(cur, reason) == [state |-> "rejected", reason |-> reason]

\* Promise.all: the first rejection decides, later ones are ignored.
PromiseAllReject(cur, reason) ==
    IF cur.state = "pending" THEN [state |-> "rejected", reason |-> reason] ELSE cur

\* Promise.any in place of Promise.all: one fulfilled promise is enough.
PromiseAnyFulfilled(o) == \E i \in DOMAIN o : o[i].st = "resolved"

\* Promise.all: fulfilled once every promise is.
PromiseAllFulfilled(o) == \A i \in DOMAIN o : o[i].st = "resolved"

\* The catch handler also reports how many files were saved so far.
OnRejectedCountsSaved(r, reason) ==
    [r EXCEPT !.error = <<"Failed to download AMP framework\n">> \o reason,
              !.count = Cardinality({ i \in DOMAIN ops : ops[i].st = "resolved" })]

\* Lines 197-202: the catch handler, then return ret.
OnRejected(r, reason) ==
    [r EXCEPT !.error = <<"Failed to download AMP framework\n">> \o reason]

\* Lines 193-196 and 202: the then handler, then return ret.
OnFulfilled(r) == [r EXCEPT !.status = TRUE]

\* The promise of operation i rejects with `message`.
OpRejects(i, message) ==
    /\ ops' = [ops EXCEPT ![i].st = "rejected", ![i].err = message]
    /\ sockets' = sockets \ {i}
    /\ firstRejected' = (IF firstRejected = 0 THEN i ELSE firstRejected)
    /\ all' = PromiseAllReject(all, message)
    /\ IF all' # all
       THEN /\ ret' = OnRejected(ret, all'.reason)
            /\ pc' = "Failed"
            /\ failStage' = 5
       ELSE UNCHANGED <<ret, pc, failStage>>

\* this.fetch_(url, fetchOptions) settles (lines 302-316). An unread body of
\* a failed response is short: its socket goes back to the agent.
FetchSettles(i, outcome) ==
    /\ OpsRun
    /\ i \in DOMAIN ops
    /\ ops[i].st = "connected"
    /\ UNCHANGED <<opts, initial, served, loc, destState, clearing>>
    /\ LET file == loc.files[i]
           fullpath == Segments(file.filepath)
       IN  CASE outcome = "reject" ->
                  /\ OpRejects(i, <<"request failed: ">> \o file.url)
                  /\ UNCHANGED <<disk, effects, content>>
             [] outcome = "notok" ->
                  /\ OpRejects(i, <<"Failed to fetch ">> \o file.url)
                  /\ UNCHANGED <<disk, effects, content>>
             [] OTHER ->
                  \* line 316: the write stream opens (and truncates) the file
                  /\ ops' = [ops EXCEPT
                               ![i].st = (IF IsGeo(file.filepath)
                                          THEN "readingText" ELSE "saving"),
                               ![i].opened = CanOpen(disk, fullpath)]
                  /\ disk' = (IF CanOpen(disk, fullpath)
                              THEN WriteFile(disk, fullpath, "partial") ELSE disk)
                  /\ content' = (IF CanOpen(disk, fullpath)
                                 THEN SetContent(content, fullpath, <<>>)
                                 ELSE content)
                  /\ effects' = effects \cup {"write"}
                  /\ UNCHANGED <<pc, ret, failStage, sockets, all, firstRejected>>

\* Line 321: res.text() settles while no listener is on the write stream.
TextSettles(i) ==
    /\ OpsRun
    /\ i \in DOMAIN ops
    /\ ops[i].st = "readingText"
    /\ UNCHANGED <<opts, initial, served, content, loc, destState, disk, effects, clearing>>
    /\ \/ \* lines 322-329: the text is written, the listeners are registered
          /\ ops' = [ops EXCEPT ![i].st = "saving",
                                ![i].text = UndoHotpatch(served)]
          /\ sockets' = sockets \ {i}
          /\ UNCHANGED <<pc, ret, failStage, all, firstRejected>>
       \/ \* the body fails: the async function throws
          OpRejects(i, <<"body error: ">> \o loc.files[i].url)

\* The write stream emits 'error' before line 329 registered a listener: an
\* unhandled 'error' event is thrown out of the event loop.
StreamErrorUnhandled(i) ==
    /\ OpsRun
    /\ i \in DOMAIN ops
    /\ ops[i].st = "readingText"
    /\ pc' = "Crashed"
    /\ UNCHANGED <<opts, initial, served, content, loc, ret, failStage, destState, disk, effects,
                   clearing, ops, sockets, all, firstRejected>>

\* The write stream emits 'finish' (line 328).
SaveFinish(i) ==
    /\ OpsRun
    /\ i \in DOMAIN ops
    /\ ops[i].st = "saving"
    /\ ops[i].opened
    /\ ops' = [ops EXCEPT ![i].st = "resolved"]
    /\ sockets' = sockets \ {i}
    /\ disk' = WriteFile(disk, Segments(loc.files[i].filepath), "new")
    /\ content' = SetContent(content, Segments(loc.files[i].filepath),
                             IF IsGeo(loc.files[i].filepath)
                             THEN ops[i].text   \* line 322
                             ELSE served)       \* line 324
    /\ IF PromiseAllFulfilled(ops') /\ all.state = "pending"
       THEN /\ all' = [all EXCEPT !.state = "fulfilled"]
            /\ ret' = OnFulfilled(ret)
            /\ pc' = "Succeeded"
       ELSE UNCHANGED <<all, ret, pc>>
    /\ UNCHANGED <<opts, initial, served, loc, failStage, destState, effects,
                   clearing, firstRejected>>

\* The write stream or the piped body emits 'error' (lines 325, 329).
SaveError(i) ==
    /\ OpsRun
    /\ i \in DOMAIN ops
    /\ ops[i].st = "saving"
    /\ OpRejects(i, <<"write failed: ">> \o loc.files[i].filepath)
    /\ UNCHANGED <<opts, initial, served, content, loc, destState, disk, effects, clearing>>

----------------------------------------------------------------------------
(* The specifications *)

\* The answers of the version-discovery and cache-registry collaborators.
Collaborators ==
    \/ VersionSettles
    \/ CacheSettles

\* Every other step of the run.
Pipeline ==
    \/ Start
    \/ Validate
    \/ ResolveVersion
    \/ ResolveOrigin
    \/ FetchManifest
    \/ ManifestResponse
    \/ ManifestText
    \/ ParseManifest
    \/ PlanDirectories
    \/ ReaddirSettles
    \/ \E item \in DOMAIN clearing : RemovalSettles(item)
    \/ ClearingDone
    \/ CreateSubdirs
    \/ Dispatch
    \/ \E i \in DOMAIN ops : Acquire(i)
    \/ \E i \in DOMAIN ops : \E outcome \in {"ok", "notok", "reject"} :
          FetchSettles(i, outcome)
    \/ \E i \in DOMAIN ops : TextSettles(i)
    \/ \E i \in DOMAIN ops : StreamErrorUnhandled(i)
    \/ \E i \in DOMAIN ops : SaveFinish(i)
    \/ \E i \in DOMAIN ops : SaveError(i)

Next == Collaborators \/ Pipeline

Spec == Init /\ [][Next]_vars

----------------------------------------------------------------------------
(* Stage 5 on a manifest longer than the agent's socket limit *)

PoolNames ==
    << "files.txt", "a.js", "b.js", "c.js", "e.js", "f.js", "g.js", "h.js", "i.js" >>

PoolUrl == FrameworkBaseUrl(Prefix, <<"1", "5">>)

PoolFiles(n) ==
    [k \in 1..n |-> [filepath |-> <<PoolNames[k]>>, url |-> PoolUrl \o <<PoolNames[k]>>]]

\* getFramework({dest: '~/out', clear: false, rtv: '15', ampUrlPrefix:
\* 'https://example.com'}) on an empty directory, after stage 4, for a
\* manifest of n entries.
InitPool ==
    \E n \in 1..MaxPoolFiles :
       /\ opts = [dest |-> [defined |-> TRUE, path |-> <<"~", "out">>], clear |-> "false"]
       /\ initial = [destState |-> "dir", disk |-> NoDisk]
       /\ pc = "Dispatching"
       /\ loc = [dest |-> ExpandHome(<<"~", "out">>), rtv |-> <<"1", "5">>,
                 ampUrlPrefix |-> <<>>, url |-> PoolUrl, text |-> <<>>,
                 files |-> PoolFiles(n)]
       /\ ret = [status |-> FALSE, error |-> <<>>, count |-> n, url |-> PoolUrl,
                 dest |-> ExpandHome(<<"~", "out">>), rtv |-> <<"1", "5">>]
       /\ failStage = 0
       /\ destState = "dir"
       /\ disk = NoDisk
       /\ effects = {"manifest"}
       /\ clearing = NoDisk
       /\ ops = NoOps
       /\ sockets = {}
       /\ all = [state |-> "idle", reason |-> <<>>]
       /\ firstRejected = 0
       /\ served \in Bodies
       /\ content = NoContent

NextPool ==
    \/ Dispatch
    \/ \E i \in DOMAIN ops : Acquire(i)
    \/ \E i \in DOMAIN ops : \E outcome \in {"ok", "notok"} : FetchSettles(i, outcome)
    \/ \E i \in DOMAIN ops : SaveFinish(i)

SpecPool == InitPool /\ [][NextPool]_vars

----------------------------------------------------------------------------
(* Stage 5 on a manifest of files.txt and one more file, for the bodies    *)
(* the origin may answer with.                                             *)

GeoFiles(filepath) ==
    [k \in 1..2 |->
        IF k = 1 THEN [filepath |-> FRAMEWORK_FILES_TXT,
                       url |-> PoolUrl \o FRAMEWORK_FILES_TXT]
        ELSE [filepath |-> filepath, url |-> PoolUrl \o filepath]]

InitGeo ==
    \E filepath \in GeoPathChoices :
       /\ opts = [dest |-> [defined |-> TRUE, path |-> <<"~", "out">>], clear |-> "false"]
       /\ initial = [destState |-> "dir", disk |-> NoDisk]
       /\ pc = "Dispatching"
       /\ loc = [dest |-> ExpandHome(<<"~", "out">>), rtv |-> <<"1", "5">>,
                 ampUrlPrefix |-> <<>>, url |-> PoolUrl, text |-> <<>>,
                 files |-> GeoFiles(filepath)]
       /\ ret = [status |-> FALSE, error |-> <<>>, count |-> 2, url |-> PoolUrl,
                 dest |-> ExpandHome(<<"~", "out">>), rtv |-> <<"1", "5">>]
       /\ failStage = 0
       /\ destState = "dir"
       /\ disk = NoDisk
       /\ effects = {"manifest"}
       /\ clearing = NoDisk
       /\ ops = NoOps
       /\ sockets = {}
       /\ all = [state |-> "idle", reason |-> <<>>]
       /\ firstRejected = 0
       /\ served \in GeoBodies
       /\ content = NoContent

NextGeo ==
    \/ Dispatch
    \/ \E i \in DOMAIN ops : Acquire(i)
    \/ \E i \in DOMAIN ops : FetchSettles(i, "ok")
    \/ \E i \in DOMAIN ops : TextSettles(i)
    \/ \E i \in DOMAIN ops : SaveFinish(i)

SpecGeo == InitGeo /\ [][NextGeo]_vars

----------------------------------------------------------------------------
(* Stages 3 to 5 from the arrival of the manifest body, for bodies with    *)
(* blank lines.                                                            *)

\* A line of spaces or tabs is a line like any other for split and filter.
BlankLineChoices == { <<"files.txt">>, <<"a.js">>, <<" ">>, <<" ", "\t">>, <<>> }

BlankLineTexts ==
    { JoinLines(ls, nl, t) :
        ls \in SeqsUpTo(BlankLineChoices, MaxLines), nl \in Newlines, t \in BOOLEAN }

\* getFramework({dest: '~/out', clear: false, rtv: '15', ampUrlPrefix:
\* 'https://example.com'}) on an empty directory, at line 151.
InitParse ==
    \E text \in BlankLineTexts :
       /\ opts = [dest |-> [defined |-> TRUE, path |-> <<"~", "out">>], clear |-> "false"]
       /\ initial = [destState |-> "dir", disk |-> NoDisk]
       /\ pc = "ParsingManifest"
       /\ loc = [dest |-> ExpandHome(<<"~", "out">>), rtv |-> <<"1", "5">>,
                 ampUrlPrefix |-> <<>>, url |-> PoolUrl, text |-> text,
                 files |-> <<>>]
       /\ ret = [status |-> FALSE, error |-> <<>>, count |-> 0, url |-> PoolUrl,
                 dest |-> ExpandHome(<<"~", "out">>), rtv |-> <<"1", "5">>]
       /\ failStage = 0
       /\ destState = "dir"
       /\ disk = NoDisk
       /\ effects = {"manifest"}
       /\ clearing = NoDisk
       /\ ops = NoOps
       /\ sockets = {}
       /\ all = [state |-> "idle", reason |-> <<>>]
       /\ firstRejected = 0
       /\ served \in Bodies
       /\ content = NoContent

NextParse ==
    \/ ParseManifest
    \/ PlanDirectories
    \/ CreateSubdirs
    \/ Dispatch
    \/ \E i \in DOMAIN ops : Acquire(i)
    \/ \E i \in DOMAIN ops : \E outcome \in {"ok", "notok"} : FetchSettles(i, outcome)
    \/ \E i \in DOMAIN ops : SaveFinish(i)

SpecParse == InitParse /\ [][NextParse]_vars

----------------------------------------------------------------------------
(* getFramework({dest: '~/out', rtv: '15', ampUrlPrefix:                    *)
(* 'https://example.com'}) on an existing directory, in runs in which the  *)
(* event loop delivers every completion of an issued request or write.     *)

InitFair ==
    /\ Init
    /\ opts = [dest |-> [defined |-> TRUE, path |-> <<"~", "out">>],
               clear |-> "undefined"]
    /\ initial.destState = "dir"
    /\ loc.rtv = <<"1", "5">>
    /\ loc.ampUrlPrefix = Prefix

OpStep(i) ==
    \/ Acquire(i)
    \/ \E outcome \in {"ok", "notok", "reject"} : FetchSettles(i, outcome)
    \/ TextSettles(i)
    \/ StreamErrorUnhandled(i)
    \/ SaveFinish(i)
    \/ SaveError(i)

FairSpec ==
    /\ InitFair
    /\ [][Pipeline]_vars
    /\ \A i \in 1..(MaxLines + 1) : WF_vars(OpStep(i))

----------------------------------------------------------------------------
(* Vocabulary of the properties *)

\* getFramework's promise resolved with the result object.
Returned == pc \in {"Succeeded", "Failed"}

\* getFramework's promise rejected, or an exception left the event loop.
Escaped == pc \in {"Thrown", "Crashed"}

Settled(i) == ops[i].st \in {"resolved", "rejected"}

NetworkCalls == {"version", "cache", "manifest", "fetch"}

Rank(p) ==
    CASE p = "Start" -> 0
      [] p = "Validating" -> 1
      [] p = "ResolvingVersion" -> 2
      [] p = "AwaitVersion" -> 3
      [] p = "ResolvingOrigin" -> 4
      [] p = "AwaitCache" -> 5
      [] p = "FetchingManifest" -> 6
      [] p = "AwaitManifest" -> 7
      [] p = "AwaitManifestText" -> 8
      [] p = "ParsingManifest" -> 9
      [] p = "PlanningDirectories" -> 10
      [] p = "AwaitReaddir" -> 11
      [] p = "Clearing" -> 12
      [] p = "CreatingSubdirs" -> 13
      [] p = "Dispatching" -> 14
      [] p = "MaterializingFiles" -> 15
      [] OTHER -> 16

\* Validating, ResolvingOrigin, FetchingManifest, PlanningDirectories,
\* MaterializingFiles; 6 once the run is over.
StageOf(p) ==
    IF Rank(p) <= 1 THEN 1
    ELSE IF Rank(p) <= 5 THEN 2
    ELSE IF Rank(p) <= 9 THEN 3
    ELSE IF Rank(p) <= 13 THEN 4
    ELSE IF Rank(p) <= 15 THEN 5
    ELSE 6

\* The external actions a run that has come as far as stage s may have made.
EffectsThrough(s) ==
    CASE s = 1 -> {"mkdest"}
      [] s = 2 -> {"mkdest", "version", "cache"}
      [] s = 3 -> {"mkdest", "version", "cache", "manifest"}
      [] s = 4 -> {"mkdest", "version", "cache", "manifest", "clear", "mksub"}
      [] OTHER -> {"mkdest", "version", "cache", "manifest", "clear", "mksub",
                   "fetch", "write"}

\* The stage the run is in, or the one it ended in.
ReachedStage ==
    IF StageOf(pc) <= 5 THEN StageOf(pc)
    ELSE IF failStage # 0 THEN failStage ELSE 5

\* Every path of the bundle below the destination: its files and their
\* parent directories.
BundlePaths ==
    UNION { Prefixes(Segments(loc.files[k].filepath)) : k \in 1..Len(loc.files) }

BundleFiles == { Segments(loc.files[k].filepath) : k \in 1..Len(loc.files) }

\* A pre-existing entry that shares no name with the bundle.
Unrelated(p) == Prefixes(p) \cap BundlePaths = {}

\* Some line of the text, as delimited by \n or \r\n, is exactly files.txt.
SelfListed(text) ==
    \E k \in 1..Len(text) :
       /\ text[k] = "files.txt"
       /\ k = 1 \/ text[k - 1] = "\n"
       /\ \/ k = Len(text)
          \/ text[k + 1] = "\n"
          \/ (k + 2 <= Len(text) /\ text[k + 1] = "\r" /\ text[k + 2] = "\n")

----------------------------------------------------------------------------
(* The claims *)

\* C1: getFramework never throws or rejects: every run ends by resolving
\* with the result object, and every failure is reported in it as
\* status = false with a non-empty error.
C1_NeverRaises ==
    /\ ~Escaped
    /\ failStage # 0 => (pc = "Failed" /\ ~ret.status /\ ret.error # <<>>)

\* C2: once stages 1-4 have succeeded on a manifest of N entries, the result
\* returned has status = true exactly if all N operations succeeded (their
\* files are written in full), and count = N in the success and in the
\* failure case, however many files were saved.
C2_StatusIffAllSaved ==
    (Returned /\ failStage \in {0, 5}) =>
        /\ ret.count = Len(loc.files)
        /\ ret.status <=> (\A i \in DOMAIN ops : ops[i].st = "resolved")
        /\ ret.status =>
              \A i \in DOMAIN ops :
                 /\ Segments(loc.files[i].filepath) \in DOMAIN disk
                 /\ disk[Segments(loc.files[i].filepath)] = File("new")

\* A failed result with count 2 of which one file was saved and one was not.
C2_Witness ==
    /\ pc = "Failed"
    /\ failStage = 5
    /\ ret.count = 2
    /\ ~ret.status
    /\ \E i, j \in DOMAIN ops : ops[i].st = "resolved" /\ ops[j].st = "rejected"

C4_FirstFailureInTimeWins ==
    firstRejected # 0 =>
        /\ pc \in {"Failed", "Crashed"}
        /\ ~ret.status
        /\ ret.error = <<"Failed to download AMP framework\n">> \o ops[firstRejected].err

\* The second entry failed first, the first entry failed later with another
\* message, and the error reported is the second entry's.
C4_Witness ==
    /\ firstRejected = 2
    /\ ops[1].st = "rejected"
    /\ ops[1].err # ops[2].err
    /\ ret.error = <<"Failed to download AMP framework\n">> \o ops[2].err

\* The fetch of operation i failed: a response that is not ok, or no
\* response.
FetchFailed(i) ==
    /\ i \in DOMAIN ops
    /\ ops[i].st = "rejected"
    /\ ops[i].err[1] \in {"Failed to fetch ", "request failed: "}

\* The body or the write stream of operation i failed.
WriteFailed(i) ==
    /\ i \in DOMAIN ops
    /\ ops[i].st = "rejected"
    /\ ops[i].err[1] \in {"write failed: ", "body error: "}

\* Operation i resolved and its file is on disk in full.
Saved(i) ==
    /\ i \in DOMAIN ops
    /\ ops[i].st = "resolved"
    /\ Segments(loc.files[i].filepath) \in DOMAIN disk
    /\ disk[Segments(loc.files[i].filepath)] = File("new")

\* C5: a file operation whose fetch fails never cancels or rolls back a
\* sibling. Once some fetch has failed, every other operation still runs to
\* its own end, whether or not the failed result has been returned: it is
\* saved in full, unless its own fetch fails or some write fails (which
\* includes an unhandled write-stream error ending the process); and no
\* file the run has written in full is ever removed.
C5_SiblingsRunToCompletion ==
    /\ \A i \in 1..(MaxLines + 1) :
          (i \in DOMAIN ops /\ \E j \in DOMAIN ops : j # i /\ FetchFailed(j))
             ~> \/ Saved(i)
                \/ FetchFailed(i)
                \/ \E k \in DOMAIN ops : WriteFailed(k)
                \/ pc = "Crashed"
    /\ [][(\A p \in DOMAIN disk :
              disk[p] = File("new") => (p \in DOMAIN disk' /\ disk'[p].kind = "file"))]_vars

\* The failed result was returned while a sibling was still in flight, and
\* that sibling has since been saved in full.
C5_Witness ==
    /\ pc = "Failed"
    /\ failStage = 5
    /\ \E i, j \in DOMAIN ops :
          /\ ops[j].st = "rejected"
          /\ ops[j].err = <<"Failed to fetch ">> \o loc.files[j].url
          /\ firstRejected = j
          /\ ops[i].st = "resolved"
          /\ disk[Segments(loc.files[i].filepath)] = File("new")
          /\ i # j

\* C6: the run only moves forward through its stages; a failure in stages
\* 1-4 ends the run at once, in the stage it occurred in, and from then on
\* no action of a later stage is performed; at every moment only actions of
\* the stages reached so far have been performed, and stage 4's removals
\* have all completed before its subdirectories are made or stage 5 starts.
C6_StagesOnlyForward ==
    /\ [][Rank(pc') >= Rank(pc)]_vars
    /\ [][(failStage = 0 /\ failStage' \in 1..4) =>
             (pc' \in {"Failed", "Thrown"} /\ failStage' = StageOf(pc))]_vars
    /\ [][(failStage \in 1..4) =>
             (pc' = pc /\ effects' = effects /\ ops' = ops /\ failStage' = failStage)]_vars
    /\ [](effects \subseteq EffectsThrough(ReachedStage))
    /\ [](pc \in {"CreatingSubdirs", "Dispatching", "MaterializingFiles"} =>
             ClearingSettled(clearing))
    /\ [](ops # NoOps => ReachedStage = 5)

\* The manifest request failed after the destination was made and the
\* version was discovered: the run is over in stage 3.
C6_Witness ==
    /\ pc = "Failed"
    /\ failStage = 3
    /\ effects = {"mkdest", "version", "manifest"}

\* C7: when the destination does not exist, it has been created and is a
\* usable directory before any network call is issued; when a destination
\* path was given and it cannot be created or is not accessible, the run
\* fails in stage 1 and issues no network call.
C7_DestinationBeforeNetwork ==
    /\ effects \cap NetworkCalls # {} => destState = "dir"
    /\ (initial.destState = "absent" /\ effects \cap NetworkCalls # {}) =>
          "mkdest" \in effects
    /\ (opts.dest.defined /\ Rank(pc) > 1 /\ destState # "dir") =>
          /\ pc = "Failed"
          /\ failStage = 1
          /\ ret.error # <<>>
          /\ effects \cap NetworkCalls = {}

\* The destination did not exist, was made, and the manifest was requested.
C7_Witness ==
    /\ initial.destState = "absent"
    /\ destState = "dir"
    /\ "mkdest" \in effects
    /\ "manifest" \in effects

\* C8: when the manifest body arrived with a success status and none of its
\* lines is files.txt, the run fails there with status = false and a
\* non-empty error, and a run that failed in stage 3 has started no file
\* operation and has fetched and written no file.
C8_ManifestMustListItself ==
    /\ [][(pc = "ParsingManifest" /\ ~SelfListed(loc.text)) =>
             (pc' = "Failed" /\ ~ret'.status /\ ret'.error # <<>>)]_vars
    /\ []((pc = "Failed" /\ failStage = 3) =>
             (ops = NoOps /\ effects \cap {"clear", "mksub", "fetch", "write"} = {}
              /\ disk = initial.disk))

\* The body "a.js" (then a line break) was received and the run has failed.
C8_Witness ==
    /\ pc = "Failed"
    /\ failStage = 3
    /\ Len(loc.text) >= 2
    /\ loc.text[1] = "a.js"
    /\ ~SelfListed(loc.text)
    /\ ~ret.status

\* C9: after a successful run with the clear flag true or omitted the
\* destination holds exactly the bundle's files (written in full) and their
\* parent directories, and no pre-existing entry unrelated to the bundle;
\* after a successful run with the clear flag false every pre-existing
\* entry unrelated to the bundle is there as it was, next to the bundle's
\* files written in full.
C9_ClearFlagFrame ==
    pc = "Succeeded" =>
        /\ \A f \in BundleFiles : f \in DOMAIN disk /\ disk[f] = File("new")
        /\ opts.clear \in {"true", "undefined"} =>
              /\ DOMAIN disk = BundlePaths
              /\ \A p \in DOMAIN initial.disk : Unrelated(p) => p \notin DOMAIN disk
        /\ opts.clear = "false" =>
              \A p \in DOMAIN initial.disk :
                 Unrelated(p) => (p \in DOMAIN disk /\ disk[p] = initial.disk[p])

\* A successful run with the clear flag omitted on a destination that held
\* a file and a directory.
C9_Witness ==
    /\ pc = "Succeeded"
    /\ opts.clear = "undefined"
    /\ <<"old.txt">> \in DOMAIN initial.disk
    /\ <<"olddir", "x">> \in DOMAIN initial.disk
    /\ <<"old.txt">> \notin DOMAIN disk

\* C10: every entry's request is issued at once when stage 5 starts, and at
\* every moment at most 6 of them hold a connection.
C10_AtMostSixConnections ==
    /\ Cardinality(sockets) <= 6
    /\ sockets = { i \in DOMAIN ops : ops[i].st \in {"connected", "saving"} }
    /\ StageOf(pc) = 6 \/ pc = "MaterializingFiles" => DOMAIN ops = 1..Len(loc.files)

\* Six requests hold a connection and a seventh waits for one.
C10_Witness ==
    /\ Cardinality(sockets) = 6
    /\ \E i \in DOMAIN ops : ops[i].st = "queued"

\* p with its trailing slashes removed.
RECURSIVE StripSlashes(_)
StripSlashes(p) ==
    IF EndsWith(p, "/") THEN StripSlashes(SubSeq(p, 1, Len(p) - 1)) ELSE p

\* C11: for a valid version v and an absolute origin prefix p, the base URL
\* built and reported in the result is p brought to end in exactly one
\* slash, followed by rtv/<v>/, whether p ends in no slash, one or several;
\* and the reported URL does not change afterwards.
C11_BaseUrlNormalized ==
    /\ [][(pc = "ResolvingOrigin" /\ pc' = "FetchingManifest") =>
             ret'.url = StripSlashes(loc.ampUrlPrefix)
                            \o <<"/", "rtv/">> \o loc.rtv \o <<"/">>]_vars
    /\ [][(ret.url # <<>>) => (ret'.url = ret.url)]_vars

\* A country run starts at position k of the text: two of the given
\* letters, then 26 spaces.
RunAt(text, k, letters) ==
    /\ k + 27 <= Len(text)
    /\ text[k] \in letters
    /\ text[k + 1] \in letters
    /\ \A j \in (k + 2)..(k + 27) : text[j] = " "

\* The text with its first country run replaced by the placeholder, and
\* the text itself when it has none.
FirstRunReplaced(text, letters) ==
    LET at == { k \in 1..Len(text) : RunAt(text, k, letters) } IN
    IF at = {} THEN text
    ELSE LET k == CHOOSE m \in at : \A j \in at : m <= j
         IN  SubSeq(text, 1, k - 1) \o <<"{{AMP_ISO_COUNTRY_HOTPATCH}}">>
                 \o SubSeq(text, k + 28, Len(text))

\* The text in the file that operation i has saved.
SavedText(i) == content[Segments(loc.files[i].filepath)]

\* C12 as stated: a saved file named amp-geo-<version or latest> with a .js
\* or .mjs extension holds the fetched body with its first run of two
\* lowercase letters and 26 spaces replaced by the placeholder (the body
\* itself when it has no such run); every other saved file holds the body.
C12_LowercaseRunReplaced ==
    \A i \in DOMAIN ops :
       ops[i].st = "resolved" =>
          SavedText(i) =
             (IF loc.files[i].filepath \in { <<"amp-geo-0.1.js">>, <<"amp-geo-latest.mjs">> }
              THEN FirstRunReplaced(served, {"u", "s", "e"})
              ELSE served)

\* C12 as amended: a saved file whose path contains a match of
\* amp-geo-<version or latest>.js or .mjs anywhere in it (amp-geo-0.1.js.map
\* included) holds the fetched text with the first occurrence of two ASCII
\* letters of either case followed by 26 spaces replaced by the placeholder
\* and everything else unchanged (the text itself when there is no such
\* occurrence); every other saved file holds the body unmodified.
C12_FirstRunOfEitherCaseReplaced ==
    \A i \in DOMAIN ops :
       ops[i].st = "resolved" =>
          SavedText(i) =
             (IF loc.files[i].filepath \in { <<"amp-geo-0.1.js">>, <<"amp-geo-latest.mjs">>,
                                             <<"amp-geo-0.1.js.map">> }
              THEN FirstRunReplaced(served, {"u", "s", "e", "U", "S"})
              ELSE served)

\* The helper's body held `US` and 26 spaces, then `;se` and 26 spaces, and
\* the file saved holds the placeholder, then `;se` and 26 spaces.
C12_Witness ==
    /\ Len(ops) = 2
    /\ ops[2].st = "resolved"
    /\ loc.files[2].filepath = <<"amp-geo-0.1.js">>
    /\ Len(served) = 57
    /\ served[1] = "U"
    /\ SavedText(2) = <<"{{AMP_ISO_COUNTRY_HOTPATCH}}", ";", "s", "e">>
                         \o [k \in 1..26 |-> " "]

\* C13: an error of a file's write stream, at whatever point after the
\* stream was opened, rejects that file's operation and is reported in the
\* result: it never leaves the event loop as an unhandled error, and an
\* operation whose stream could not open its file never resolves.
C13_StreamErrorsReachResult ==
    /\ pc # "Crashed"
    /\ \A i \in DOMAIN ops :
          /\ WriteFailed(i) => (pc = "Failed" /\ ~ret.status /\ ret.error # <<>>)
          /\ ops[i].st = "resolved" => ops[i].opened

\* The directory that holds the file of operation i, relative to the
\* destination (the empty path when it is the destination itself).
ParentOf(i) ==
    LET fullpath == Segments(loc.files[i].filepath)
    IN  SubSeq(fullpath, 1, Len(fullpath) - 1)

\* C14: when the write stream of an entry whose path has a parent directory
\* other than the destination is opened, that parent exists below the
\* destination and is a directory, whatever the clear flag and whatever the
\* destination held before the run.
C14_ParentExistsAtOpen ==
    [][(\A i \in DOMAIN ops :
           (ops[i].st = "connected" /\ ops'[i].st \in {"saving", "readingText"}
            /\ ParentOf(i) # <<>>) =>
              (ParentOf(i) \in DOMAIN disk /\ disk[ParentOf(i)].kind = "dir"))]_vars

\* What the run makes below the destination.
Creations == {"mksub", "fetch", "write"}

\* C15: when the clear flag is not false, every direct child the
\* destination had has been removed (each unlink and recursive removal has
\* completed) before the first subdirectory is made and before the first
\* file request is issued, and nothing is removed once the run has made a
\* subdirectory or issued a file request.
C15_ClearedBeforeCreating ==
    /\ []((opts.clear # "false" /\
           (effects \cap Creations # {} \/
            pc \in {"CreatingSubdirs", "Dispatching", "MaterializingFiles", "Succeeded"})) =>
             /\ "clear" \in effects
             /\ DOMAIN clearing = Children(initial.disk)
             /\ \A item \in DOMAIN clearing : clearing[item] = "done")
    /\ []((opts.clear # "false" /\ pc = "CreatingSubdirs") => disk = NoDisk)
    /\ [][(\A p \in DOMAIN disk :
              p \notin DOMAIN disk' => effects \cap Creations = {})]_vars

\* With the clear flag omitted, both children of the destination were
\* removed, then a subdirectory was made and the requests were issued.
C15_Witness ==
    /\ opts.clear = "undefined"
    /\ DOMAIN clearing = { <<"old.txt">>, <<"olddir">> }
    /\ "mksub" \in effects
    /\ "fetch" \in effects
    /\ <<"d">> \in DOMAIN disk

\* C16: when the origin prefix is omitted and the cache registry returns
\* no usable host name (nothing, or an object whose cacheDomain is missing
\* or empty), the run fails in stage 2 and requests no manifest: a base URL
\* is built from the registry's answer only when its host is a host name
\* the registry returned.
C16_NoUrlWithoutHostname ==
    "cache" \in effects =>
        /\ ret.url # <<>> =>
              ret.url = <<"https:", "/", "/", "example.com", "/", "rtv/">>
                           \o ret.rtv \o <<"/">>
        /\ "manifest" \in effects => ret.url # <<>>

Whitespace == {" ", "\t"}

\* The path is empty once leading and trailing whitespace is removed.
Blank(filepath) == \A k \in 1..Len(filepath) : filepath[k] \in Whitespace

\* C17: every entry parsed from a manifest body has a path that is not
\* empty after trimming: a line that is empty or holds only whitespace is
\* no entry, is not counted in the result and is not fetched.
C17_NoBlankEntries ==
    /\ \A k \in 1..Len(loc.files) : ~Blank(loc.files[k].filepath)
    /\ ret.count = Cardinality({ k \in 1..Len(loc.files) : ~Blank(loc.files[k].filepath) })
    /\ \A i \in DOMAIN ops : ~Blank(loc.files[i].filepath)

\* C18: in every result getFramework returns, status is true exactly when
\* error is the empty string, and a result with status true has a
\* non-empty rtv and url and a count of at least 1.
C18_StatusIffNoError ==
    Returned =>
        /\ ret.status <=> (ret.error = <<>>)
        /\ ret.status => (ret.rtv # <<>> /\ ret.url # <<>> /\ ret.count >= 1)

\* A successful result for a version that was discovered and a manifest of
\* two entries.
C18_Witness ==
    /\ pc = "Succeeded"
    /\ ret.status
    /\ ret.error = <<>>
    /\ "version" \in effects
    /\ ret.rtv = <<"1", "5">>
    /\ ret.count = 2

\* C19: a run that fails in stage 1, 2 or 3 leaves what the destination
\* directory held as it was, also when the clear flag is true: nothing has
\* been removed, no subdirectory made, no file requested or written; the
\* destination directory itself may have been made when it did not exist.
C19_EarlyFailureKeepsContents ==
    failStage \in 1..3 =>
        /\ disk = initial.disk
        /\ content = NoContent
        /\ DOMAIN clearing = {}
        /\ effects \cap {"clear", "mksub", "fetch", "write"} = {}
        /\ \/ destState = initial.destState
           \/ /\ initial.destState = "absent"
              /\ destState \in {"dir", "dir_ro"}
              /\ "mkdest" \in effects

\* The manifest did not list itself; the clear flag is true and the file and
\* the directory the destination held are still there.
C19_Witness ==
    /\ pc = "Failed"
    /\ failStage = 3
    /\ opts.clear = "true"
    /\ loc.text # <<>>
    /\ <<"olddir", "x">> \in DOMAIN disk
    /\ disk = initial.disk

\* The write stream of operation i is open on its file.
StreamOpen(i) == ops[i].st \in {"readingText", "saving"} /\ ops[i].opened

\* C20: during stage 5, whatever the manifest (also one that lists a path
\* on more than one line), no two file operations have a write stream open
\* on the same file at the same time.
C20_OneStreamPerPath ==
    \A i, j \in DOMAIN ops :
       (i # j /\ StreamOpen(i) /\ StreamOpen(j)) =>
          Segments(loc.files[i].filepath) # Segments(loc.files[j].filepath)

====
